---- MODULE Spec2Model ----
(***************************************************************************)
(* Correlation candidate detection engine of the JMeter MCP server         *)
(* (handlers/correlationEngine.js) and its callers.                        *)
(*                                                                         *)
(* A JavaScript string is a sequence of one-character strings, so that     *)
(* trimming, splitting and pattern scanning are computed character by      *)
(* character.  Attribute names and tag names, which the code only compares *)
(* for equality, stay TLA+ strings.                                        *)
(***************************************************************************)
EXTENDS Integers, Sequences, FiniteSets, TLC

\* ------------------------------------------------------------------------
\* Characters and character classes of the regular expressions
\* ------------------------------------------------------------------------
Digits == {"0", "1", "2", "3", "4", "5", "6", "7", "8", "9"}

LowerLetters ==
    {"a", "b", "c", "d", "e", "f", "g", "h", "i", "j", "k", "l", "m",
     "n", "o", "p", "q", "r", "s", "t", "u", "v", "w", "x", "y", "z"}

UpperLetters ==
    {"A", "B", "C", "D", "E", "F", "G", "H", "I", "J", "K", "L", "M",
     "N", "O", "P", "Q", "R", "S", "T", "U", "V", "W", "X", "Y", "Z"}

\* [a-zA-Z0-9]
AlphaNumClass == Digits \cup LowerLetters \cup UpperLetters

\* [0-9a-f] under the i flag
HexClass == Digits \cup {"a", "b", "c", "d", "e", "f", "A", "B", "C", "D", "E", "F"}

\* [a-zA-Z0-9._-]
JwtClass == AlphaNumClass \cup {".", "_", "-"}

\* \w, the class that decides a word boundary \b
WordClass == AlphaNumClass \cup {"_"}

\* white space removed by String.prototype.trim (the model's texts use the blank)
WhiteSpace == {" "}

\* ------------------------------------------------------------------------
\* String primitives
\* ------------------------------------------------------------------------
MinOf(S) == CHOOSE x \in S : \A y \in S : x <= y

MaxOf(S) == CHOOSE x \in S : \A y \in S : x >= y

\* s.startsWith(p)
startsWith(s, p) == Len(s) >= Len(p) /\ SubSeq(s, 1, Len(p)) = p

\* s.trim()
trim(s) ==
    LET keep == {i \in 1..Len(s) : s[i] \notin WhiteSpace}
    IN  IF keep = {} THEN <<>> ELSE SubSeq(s, MinOf(keep), MaxOf(keep))

\* s.split(ch): the pieces between every occurrence of ch
RECURSIVE split(_, _)
split(s, ch) ==
    LET at == {i \in 1..Len(s) : s[i] = ch}
    IN  IF at = {} THEN <<s>>
        ELSE LET i == MinOf(at)
             IN  <<SubSeq(s, 1, i - 1)>> \o split(SubSeq(s, i + 1, Len(s)), ch)

\* a word boundary \b lies between text[p-1] and text[p]
wordBoundary(text, p) ==
    LET before == p > 1 /\ p - 1 <= Len(text) /\ text[p - 1] \in WordClass
        after  == p >= 1 /\ p <= Len(text) /\ text[p] \in WordClass
    IN  before # after

\* the last index of the longest run of characters of class cls starting at p
\* (p - 1 when text[p] is not in cls)
runEnd(text, p, cls) ==
    LET stop == {q \in p..Len(text) : text[q] \notin cls}
    IN  IF stop = {} THEN Len(text) ELSE MinOf(stop) - 1

\* ------------------------------------------------------------------------
\* Pattern constants
\* ------------------------------------------------------------------------
UuidGroups == <<8, 4, 4, 4, 12>>

NumericMin == 6
NumericMax == 14
AlphaNumMin == 6
AlphaNumMax == 20
IdMin == 6
IdMax == 14
GenericMin == 6
GenericMax == 20
IgnorableBelow == 4
JwtSegments == 3
HighOccurrences == 3

EyJ == <<"e", "y", "J">>
TrueText == <<"t", "r", "u", "e">>
FalseText == <<"f", "a", "l", "s", "e">>
SubstitutionPrefix == <<"$", "{">>

\* ------------------------------------------------------------------------
\* Heuristics
\* ------------------------------------------------------------------------
RangeOf(seq) == {seq[i] : i \in 1..Len(seq)}

\* the 8-4-4-4-12 shape [0-9a-f]{8}-[0-9a-f]{4}-[0-9a-f]{4}-[0-9a-f]{4}-[0-9a-f]{12}
\* laid over text[p .. p + uuidLength - 1]
uuidLength ==
    UuidGroups[1] + UuidGroups[2] + UuidGroups[3] + UuidGroups[4] + UuidGroups[5] + 4

uuidHyphens ==
    {UuidGroups[1] + 1,
     UuidGroups[1] + UuidGroups[2] + 2,
     UuidGroups[1] + UuidGroups[2] + UuidGroups[3] + 3,
     UuidGroups[1] + UuidGroups[2] + UuidGroups[3] + UuidGroups[4] + 4}

uuidShapeAt(text, p) ==
    /\ p >= 1
    /\ p + uuidLength - 1 <= Len(text)
    /\ \A k \in 1..uuidLength :
          IF k \in uuidHyphens
          THEN text[p + k - 1] = "-"
          ELSE text[p + k - 1] \in HexClass

\* variant: the literals "true" and "false" are not filtered
isIgnorableNoLiteralCheck(value) ==
    \/ value = <<>>
    \/ startsWith(value, SubstitutionPrefix)
    \/ Len(value) < IgnorableBelow

isIgnorable(value) ==
    \/ value = <<>>
    \/ startsWith(value, SubstitutionPrefix)
    \/ value = TrueText \/ value = FalseText
    \/ Len(value) < IgnorableBelow

looksLikeUUID(v) == Len(v) = uuidLength /\ uuidShapeAt(v, 1)

looksLikeJWT(v) == startsWith(v, EyJ) /\ Len(split(v, ".")) = JwtSegments

\* variant: no upper limit on the digits
looksLikeNumericIdUnbounded(v) ==
    /\ Len(v) >= IdMin
    /\ \A i \in 1..Len(v) : v[i] \in Digits

looksLikeNumericId(v) ==
    /\ Len(v) >= IdMin
    /\ Len(v) <= IdMax
    /\ \A i \in 1..Len(v) : v[i] \in Digits

looksLikeAlphaNumeric(v) ==
    /\ Len(v) >= GenericMin
    /\ Len(v) <= GenericMax
    /\ \A i \in 1..Len(v) : v[i] \in AlphaNumClass

classifyValue(value) ==
    IF looksLikeJWT(value) THEN "JWT_TOKEN"
    ELSE IF looksLikeUUID(value) THEN "UUID"
    ELSE IF looksLikeNumericId(value) THEN "NUMERIC_ID"
    ELSE IF looksLikeAlphaNumeric(value) THEN "GENERIC_DYNAMIC_VALUE"
    ELSE "UNKNOWN"

\* variant: the shape is consulted before the number of occurrences
calculateConfidenceShapeFirst(value, occurrences) ==
    IF looksLikeJWT(value) \/ looksLikeUUID(value) THEN "HIGH"
    ELSE IF looksLikeNumericId(value) THEN "MEDIUM"
    ELSE IF Len(occurrences) >= HighOccurrences THEN "HIGH"
    ELSE "LOW"

calculateConfidence(value, occurrences) ==
    IF Len(occurrences) >= HighOccurrences THEN "HIGH"
    ELSE IF looksLikeJWT(value) \/ looksLikeUUID(value) THEN "HIGH"
    ELSE IF looksLikeNumericId(value) THEN "MEDIUM"
    ELSE "LOW"

buildRecommendation(value, type) ==
    CASE type = "JWT_TOKEN" ->
           [extractor |-> "Regex Extractor", variableName |-> "jwt_token",
            regex |-> "eyJ[a-zA-Z0-9._-]+",
            usage |-> "Extract token from login response and use in Authorization header"]
      [] type = "UUID" ->
           [extractor |-> "JSON Extractor", variableName |-> "uuid_var",
            jsonPath |-> "$..id",
            usage |-> "Extract UUID from previous response"]
      [] type = "NUMERIC_ID" ->
           [extractor |-> "JSON Extractor", variableName |-> "id_var",
            jsonPath |-> "$..id",
            usage |-> "Replace hardcoded numeric ID with extracted variable"]
      [] OTHER ->
           [extractor |-> "Regex / JSON Extractor", variableName |-> "dynamic_var",
            usage |-> "Extract from previous response before reuse"]

\* ------------------------------------------------------------------------
\* Pattern scanning
\* ------------------------------------------------------------------------
\* A match of a pattern at p is given by its last index, 0 when there is none.
\* The quantifiers are greedy: the longest admissible repetition wins.

\* \b <8-4-4-4-12 hex> \b
uuidMatchEnd(text, p) ==
    IF /\ uuidShapeAt(text, p)
       /\ wordBoundary(text, p)
       /\ wordBoundary(text, p + uuidLength)
    THEN p + uuidLength - 1 ELSE 0

\* C+ \. C+ \. C+ over text[from .. e], the whole run of C = [a-zA-Z0-9._-]:
\* C contains the dot, so the three groups together cover the run, which must
\* hold two dots that leave every group non-empty
jwtGroups(text, from, e) ==
    \E i \in from..e : \E j \in from..e :
        /\ text[i] = "." /\ text[j] = "."
        /\ i >= from + 1 /\ j >= i + 2 /\ j <= e - 1

\* eyJ C+ \. C+ \. C+
jwtMatchEnd(text, p) ==
    IF /\ p + 2 <= Len(text)
       /\ SubSeq(text, p, p + 2) = EyJ
       /\ jwtGroups(text, p + 3, runEnd(text, p + 3, JwtClass))
    THEN runEnd(text, p + 3, JwtClass) ELSE 0

\* the repetition counts k in lo..hi that stay inside the run ending at e and
\* stop at a word boundary
boundedCounts(text, p, e, lo, hi) ==
    {k \in lo..hi : p + k - 1 <= e /\ wordBoundary(text, p + k)}

\* \b cls{lo,hi} \b
runMatchEnd(text, p, counts) ==
    IF wordBoundary(text, p) /\ counts # {} THEN p + MaxOf(counts) - 1 ELSE 0

matchEnd(rx, text, p) ==
    CASE rx = "uuid"  -> uuidMatchEnd(text, p)
      [] rx = "jwt"   -> jwtMatchEnd(text, p)
      [] rx = "num"   ->
           runMatchEnd(text, p, boundedCounts(text, p, runEnd(text, p, Digits),
                                              NumericMin, NumericMax))
      [] rx = "alnum" ->
           runMatchEnd(text, p, boundedCounts(text, p, runEnd(text, p, AlphaNumClass),
                                              AlphaNumMin, AlphaNumMax))

\* while ((m = r.exec(text)) !== null) literals.push(m[0]) for a /g pattern:
\* the leftmost match at or after lastIndex, then on from its end
RECURSIVE execAll(_, _, _)
RECURSIVE execNext(_, _, _)
RECURSIVE execTake(_, _, _, _)
execAll(rx, text, lastIndex) ==
    execNext(rx, text, {p \in lastIndex..Len(text) : matchEnd(rx, text, p) > 0})

execNext(rx, text, cands) ==
    IF cands = {} THEN <<>>
    ELSE execTake(rx, text, MinOf(cands), matchEnd(rx, text, MinOf(cands)))

execTake(rx, text, p, e) == <<SubSeq(text, p, e)>> \o execAll(rx, text, e + 1)

PatternSuite == <<"uuid", "jwt", "num", "alnum">>

\* [uuidRegex, jwtRegex, numRegex, alphaNumRegex].forEach(r => ...) from the
\* k-th pattern on
RECURSIVE scanSuite(_, _)
scanSuite(text, k) ==
    IF k > Len(PatternSuite) THEN <<>>
    ELSE execAll(PatternSuite[k], text, 1) \o scanSuite(text, k + 1)

\* variant: the scan stops at the first pattern that matches anything
RECURSIVE firstHit(_, _)
firstHit(text, k) ==
    IF k > Len(PatternSuite) THEN <<>>
    ELSE IF execAll(PatternSuite[k], text, 1) # <<>>
         THEN execAll(PatternSuite[k], text, 1)
    ELSE firstHit(text, k + 1)

extractLiteralsFirstHit(text) == IF text = <<>> THEN <<>> ELSE firstHit(text, 1)

extractLiterals(text) == IF text = <<>> THEN <<>> ELSE scanSuite(text, 1)

\* variant: a list that keeps repeated values
setAddRepeated(values, v) == Append(values, v)

\* Set.prototype.add keeps first-insertion order
setAdd(values, v) == IF v \in RangeOf(values) THEN values ELSE Append(values, v)

RECURSIVE setAddAll(_, _)
setAddAll(values, vs) ==
    IF vs = <<>> THEN values ELSE setAddAll(setAdd(values, Head(vs)), Tail(vs))

\* ------------------------------------------------------------------------
\* Documents and their parsed trees
\* ------------------------------------------------------------------------
\* An XML element: its tag, its attributes (name and testname, each absent <<>>
\* or present <<v>>), its character data and its child elements in document
\* order.
Element(tag, name, testname, text, kids) ==
    [tag |-> tag, name |-> name, testname |-> testname, text |-> text, kids |-> kids]

\* Values of the parsed tree: undefined, a string, an object (attribute map $,
\* character data _, and one key per child tag in first-appearance order) or
\* an array.
Undefined == [kind |-> "undefined"]

StringValue(s) == [kind |-> "string", s |-> s]

ArrayValue(items) == [kind |-> "array", items |-> items]

ObjectValue(attrs, text, keys, vals) ==
    [kind |-> "object", attrs |-> attrs, text |-> text, keys |-> keys, vals |-> vals]

isWhite(text) == \A i \in 1..Len(text) : text[i] \in WhiteSpace

\* the distinct tags of a list of elements, in order of first appearance
RECURSIVE tagOrder(_, _)
tagOrder(kids, seen) ==
    IF kids = <<>> THEN seen
    ELSE tagOrder(Tail(kids),
                  IF Head(kids).tag \in RangeOf(seen) THEN seen
                  ELSE Append(seen, Head(kids).tag))

\* the subsequence of elements carrying a tag
RECURSIVE withTag(_, _)
withTag(kids, tag) ==
    IF kids = <<>> THEN <<>>
    ELSE IF Head(kids).tag = tag THEN <<Head(kids)>> \o withTag(Tail(kids), tag)
    ELSE withTag(Tail(kids), tag)

\* xml2js with explicitArray: false.  Children are grouped under their tag: a
\* tag that occurs once holds the child itself, a tag that occurs again holds
\* an array.  White-only character data is dropped; an element left with no
\* key becomes that (empty or white) string, an element with character data
\* and nothing else becomes the string.  preserveChildrenOrder has no effect
\* without explicitChildren.
RECURSIVE parseElement(_)
parseElement(el) ==
    LET attrs == IF el.name = <<>> /\ el.testname = <<>> THEN <<>>
                 ELSE <<[name |-> el.name, testname |-> el.testname]>>
        text  == IF isWhite(el.text) THEN <<>> ELSE <<el.text>>
        keys  == tagOrder(el.kids, <<>>)
        group(tag) ==
            LET same == withTag(el.kids, tag)
            IN  IF Len(same) = 1 THEN parseElement(same[1])
                ELSE ArrayValue([k \in 1..Len(same) |-> parseElement(same[k])])
        vals  == [k \in 1..Len(keys) |-> group(keys[k])]
    IN  IF attrs = <<>> /\ keys = <<>>
        THEN StringValue(el.text)
        ELSE ObjectValue(attrs, text, keys, vals)

\* parseStringPromise(xml, {explicitArray: false, preserveChildrenOrder: true}):
\* explicitRoot wraps the root element under its tag
parseStringPromise(root) ==
    ObjectValue(<<>>, <<>>, <<root.tag>>, <<parseElement(root)>>)

\* node[key] for a child-tag key: only objects carry such keys
get(node, key) ==
    IF node.kind = "object" /\ key \in RangeOf(node.keys)
    THEN node.vals[CHOOSE k \in 1..Len(node.keys) : node.keys[k] = key]
    ELSE Undefined

\* JavaScript truthiness of a parsed value
truthy(v) == v.kind \in {"object", "array"} \/ (v.kind = "string" /\ v.s # <<>>)

\* Array.isArray(v) ? v : [v]
asList(v) == IF v.kind = "array" THEN v.items ELSE <<v>>

\* p.$?.name === propName
hasName(p, propName) ==
    p.kind = "object" /\ p.attrs # <<>> /\ p.attrs[1].name = <<propName>>

\* holder._ when it is a non-empty string, else <<>>
charData(holder) ==
    IF holder.kind = "object" /\ holder.text # <<>> THEN holder.text[1] ELSE <<>>

\* ------------------------------------------------------------------------
\* Literal extraction per request
\* ------------------------------------------------------------------------
\* Percent-escapes the model's texts use (application/x-www-form-urlencoded)
percentByte(h) ==
    CASE h = <<"2", "4">> -> <<"$">>
      [] h = <<"7", "B">> -> <<"{">>
      [] h = <<"7", "D">> -> <<"}">>
      [] h = <<"2", "0">> -> <<" ">>
      [] OTHER -> <<"%">> \o h

\* "+" becomes a blank, %XX becomes the byte it names
RECURSIVE formDecode(_)
formDecode(s) ==
    IF s = <<>> THEN <<>>
    ELSE IF s[1] = "+" THEN <<" ">> \o formDecode(Tail(s))
    ELSE IF s[1] = "%" /\ Len(s) >= 3 /\ s[2] \in HexClass /\ s[3] \in HexClass
         THEN percentByte(SubSeq(s, 2, 3)) \o formDecode(SubSeq(s, 4, Len(s)))
    ELSE <<s[1]>> \o formDecode(Tail(s))

\* the value of one "key=value" piece: what follows its first "="
pairValue(piece) ==
    LET eq == {i \in 1..Len(piece) : piece[i] = "="}
    IN  IF eq = {} THEN <<>>
        ELSE formDecode(SubSeq(piece, MinOf(eq) + 1, Len(piece)))

\* [...new URLSearchParams(query).values()]: empty pieces between "&" are skipped
RECURSIVE pairValues(_)
pairValues(pieces) ==
    IF pieces = <<>> THEN <<>>
    ELSE IF Head(pieces) = <<>> THEN pairValues(Tail(pieces))
    ELSE <<pairValue(Head(pieces))>> \o pairValues(Tail(pieces))

urlSearchParamsValues(query) == pairValues(split(query, "&"))

\* the non-ignorable members of vs, in order
RECURSIVE notIgnorable(_)
notIgnorable(vs) ==
    IF vs = <<>> THEN <<>>
    ELSE IF isIgnorable(Head(vs)) THEN notIgnorable(Tail(vs))
    ELSE <<Head(vs)>> \o notIgnorable(Tail(vs))

\* the first item p of an array with p.$?.name === propName, else undefined
findInArray(items, propName, hit) ==
    IF hit = {} THEN Undefined ELSE items[MinOf(hit)]

\* holder.stringProp?.find?.(p => p.$?.name === propName)
\*    || holder.stringProp?.[propName]          with sp = holder.stringProp
\* An array answers find; a string has no find and no such key; an object has
\* no find unless a child element carries that tag, and then the optional call
\* applies a value that is no function and raises TypeError.
findIn(sp, propName) ==
    CASE sp.kind = "array" ->
           [threw |-> FALSE,
            prop |-> findInArray(sp.items, propName,
                        {k \in 1..Len(sp.items) : hasName(sp.items[k], propName)})]
      [] sp.kind = "object" ->
           IF get(sp, "find").kind # "undefined"
           THEN [threw |-> TRUE, prop |-> Undefined]
           ELSE [threw |-> FALSE, prop |-> get(sp, propName)]
      [] OTHER -> [threw |-> FALSE, prop |-> Undefined]

findStringProp(holder, propName) == findIn(get(holder, "stringProp"), propName)

\* const [_, query] = fullPath.split("?"): the second piece, <<>> when there
\* is none
secondPiece(pieces) == IF Len(pieces) >= 2 THEN pieces[2] ELSE <<>>

queryValues(query) ==
    IF query # <<>> THEN notIgnorable(urlSearchParamsValues(query)) ELSE <<>>

\* variant: the path itself is not scanned
pathValuesQueryOnly(fullPath) == queryValues(secondPiece(split(fullPath, "?")))

\* the values a trimmed path contributes: query values that pass the filter,
\* then every pattern match of the whole path
pathValues(fullPath) ==
    queryValues(secondPiece(split(fullPath, "?"))) \o extractLiterals(fullPath)

\* the values a trimmed argument text contributes: the whole text when it
\* passes the filter, then every pattern match inside it
argumentValues(valText) ==
    (IF valText # <<>> /\ ~isIgnorable(valText) THEN <<valText>> ELSE <<>>)
    \o extractLiterals(valText)

\* args || []  as a list
listOrEmpty(args) == IF truthy(args) THEN asList(args) ELSE <<>>

\* sampler.elementProp?.collectionProp?.elementProp || []  as a list
argumentList(sampler) ==
    listOrEmpty(get(get(get(sampler, "elementProp"), "collectionProp"), "elementProp"))

\* if (valProp?._) { ... values.add ... } for the property found
addArgument(values, found) ==
    IF found.threw THEN [threw |-> TRUE, values |-> values]
    ELSE [threw |-> FALSE,
          values |-> IF charData(found.prop) # <<>>
                     THEN setAddAll(values, argumentValues(trim(charData(found.prop))))
                     ELSE values]

\* argList.forEach(arg => ...) from the k-th argument on; an exception ends it
RECURSIVE eachArgument(_, _, _)
eachArgument(argList, k, acc) ==
    IF k > Len(argList) \/ acc.threw THEN acc
    ELSE eachArgument(argList, k + 1,
            addArgument(acc.values, findStringProp(argList[k], "Argument.value")))

\* if (pathProp?._) { ... values.add ... } for the property found
addPath(found) ==
    IF found.threw THEN [threw |-> TRUE, values |-> <<>>]
    ELSE [threw |-> FALSE,
          values |-> IF charData(found.prop) # <<>>
                     THEN setAddAll(<<>>, pathValues(trim(charData(found.prop))))
                     ELSE <<>>]

extractRequestValues(sampler) ==
    eachArgument(argumentList(sampler), 1,
                 addPath(findStringProp(sampler, "HTTPSampler.path")))

\* ------------------------------------------------------------------------
\* Sampler collection
\* ------------------------------------------------------------------------
\* s.$?.testname || `Sampler-${order.index}`
samplerName(s, index) ==
    IF s.kind = "object" /\ s.attrs # <<>> /\ s.attrs[1].testname # <<>>
       /\ s.attrs[1].testname[1] # ""
    THEN s.attrs[1].testname[1]
    ELSE "Sampler-" \o ToString(index)

\* order.index++; result.push({order, name, requestValues}) for one element
\* s, where index is the incremented counter and req what
\* extractRequestValues(s) gave.  walk = [result, index, threw]: the output
\* list, the shared counter, and whether an exception has ended the walk.
pushSampler(walk, s, index, req) ==
    IF req.threw
    THEN [walk EXCEPT !.index = index, !.threw = TRUE]
    ELSE [walk EXCEPT !.index = index,
                      !.result = Append(@, [order |-> index,
                                            name |-> samplerName(s, index),
                                            requestValues |-> req.values])]

\* samplers.forEach(s => ...) from the k-th element on
RECURSIVE eachSampler(_, _, _)
eachSampler(list, k, walk) ==
    IF k > Len(list) \/ walk.threw THEN walk
    ELSE eachSampler(list, k + 1,
            pushSampler(walk, list[k], walk.index + 1, extractRequestValues(list[k])))

\* the values for (const key in node) visits after $ and _, whose values hold
\* no request element: the child-tag values of an object, the items of an array
fieldsOf(node) == IF node.kind = "array" THEN node.items ELSE node.vals

\* if (node.HTTPSamplerProxy) { ...forEach... } for proxy = node.HTTPSamplerProxy
ownSamplers(proxy, walk) ==
    IF truthy(proxy) THEN eachSampler(asList(proxy), 1, walk) ELSE walk

RECURSIVE collectHTTPSamplers(_, _)
RECURSIVE eachField(_, _, _)
collectHTTPSamplers(node, walk) ==
    IF node.kind \notin {"object", "array"} \/ walk.threw THEN walk
    ELSE eachField(fieldsOf(node), 1, ownSamplers(get(node, "HTTPSamplerProxy"), walk))

eachField(fields, k, walk) ==
    IF k > Len(fields) \/ walk.threw THEN walk
    ELSE eachField(fields, k + 1, collectHTTPSamplers(fields[k], walk))

\* ------------------------------------------------------------------------
\* Index, suggestions, report
\* ------------------------------------------------------------------------
\* index.get(value).push(occ), creating the entry on first sight; the Map is a
\* list of entries in first-insertion order
\* variant: every occurrence opens an entry of its own
indexAddAlwaysNew(index, value, occ) ==
    Append(index, [value |-> value, occurrences |-> <<occ>>])

indexAdd(index, value, occ) ==
    LET at == {k \in 1..Len(index) : index[k].value = value}
    IN  IF at = {}
        THEN Append(index, [value |-> value, occurrences |-> <<occ>>])
        ELSE [index EXCEPT ![MinOf(at)].occurrences = Append(@, occ)]

RECURSIVE indexValues(_, _, _, _)
indexValues(index, sampler, values, k) ==
    IF k > Len(values) THEN index
    ELSE indexValues(
            IF isIgnorable(values[k]) THEN index
            ELSE indexAdd(index, values[k],
                          [samplerName |-> sampler.name, order |-> sampler.order]),
            sampler, values, k + 1)

RECURSIVE indexSamplers(_, _, _)
indexSamplers(index, samplers, k) ==
    IF k > Len(samplers) THEN index
    ELSE indexSamplers(indexValues(index, samplers[k], samplers[k].requestValues, 1),
                       samplers, k + 1)

buildValueIndex(samplers) == indexSamplers(<<>>, samplers, 1)

\* one suggestion, with type = classifyValue(value)
suggestion(value, occurrences, type) ==
    [detectedValue  |-> value,
     valueType      |-> type,
     confidence     |-> calculateConfidence(value, occurrences),
     usedInSamplers |-> [o \in 1..Len(occurrences) |-> occurrences[o].samplerName],
     recommendation |-> buildRecommendation(value, type)]

buildCorrelationSuggestions(index) ==
    [k \in 1..Len(index) |->
        suggestion(index[k].value, index[k].occurrences, classifyValue(index[k].value))]

\* ------------------------------------------------------------------------
\* Texts of the documents
\* ------------------------------------------------------------------------
\* "eyJabc.def.ghi"
JwtText ==
    <<"e", "y", "J", "a", "b", "c", ".", "d", "e", "f", ".", "g", "h", "i">>

\* "eyJabc"
JwtPrefixText ==
    <<"e", "y", "J", "a", "b", "c">>

\* "1234567890123456"
LongNumberText ==
    <<"1", "2", "3", "4", "5", "6", "7", "8", "9", "0", "1", "2", "3", "4",
      "5", "6">>

\* "018ee423-7e8a-4c2e-9b1a-2f6e5d7c8b90"
UuidText ==
    <<"0", "1", "8", "e", "e", "4", "2", "3", "-", "7", "e", "8", "a", "-",
      "4", "c", "2", "e", "-", "9", "b", "1", "a", "-", "2", "f", "6", "e",
      "5", "d", "7", "c", "8", "b", "9", "0">>

\* "eyJ x.y.z"
SpacedJwtText ==
    <<"e", "y", "J", " ", "x", ".", "y", ".", "z">>

\* "eyJa.b.c.d"
FourPartJwtText ==
    <<"e", "y", "J", "a", ".", "b", ".", "c", ".", "d">>

\* "abc"
ShortText ==
    <<"a", "b", "c">>

\* "${tok}"
VariableText ==
    <<"$", "{", "t", "o", "k", "}">>

\* " 123456 "
PaddedIdText ==
    <<" ", "1", "2", "3", "4", "5", "6", " ">>

\* "123456"
IdText ==
    <<"1", "2", "3", "4", "5", "6">>

\* "abcdef12"
SessionText ==
    <<"a", "b", "c", "d", "e", "f", "1", "2">>

\* "id 1234567"
LabelledIdText ==
    <<"i", "d", " ", "1", "2", "3", "4", "5", "6", "7">>

\* "1234567"
UserIdText ==
    <<"1", "2", "3", "4", "5", "6", "7">>

\* "/orders/123?status=true"
OrdersPath ==
    <<"/", "o", "r", "d", "e", "r", "s", "/", "1", "2", "3", "?", "s", "t",
      "a", "t", "u", "s", "=", "t", "r", "u", "e">>

\* "/api/users/1234567?session=abcdef12&flag=true&t=abc+defg"
UsersQueryPath ==
    <<"/", "a", "p", "i", "/", "u", "s", "e", "r", "s", "/", "1", "2", "3",
      "4", "5", "6", "7", "?", "s", "e", "s", "s", "i", "o", "n", "=", "a",
      "b", "c", "d", "e", "f", "1", "2", "&", "f", "l", "a", "g", "=", "t",
      "r", "u", "e", "&", "t", "=", "a", "b", "c", "+", "d", "e", "f", "g">>

\* "/items?ref=%24%7Bid%7D&k=abcd"
EscapedQueryPath ==
    <<"/", "i", "t", "e", "m", "s", "?", "r", "e", "f", "=", "%", "2", "4",
      "%", "7", "B", "i", "d", "%", "7", "D", "&", "k", "=", "a", "b", "c",
      "d">>

\* "/a?x=1234567?y=7654321"
TwoMarksPath ==
    <<"/", "a", "?", "x", "=", "1", "2", "3", "4", "5", "6", "7", "?", "y",
      "=", "7", "6", "5", "4", "3", "2", "1">>

\* "/users/018ee423-7e8a-4c2e-9b1a-2f6e5d7c8b90"
UuidPath ==
    <<"/", "u", "s", "e", "r", "s", "/", "0", "1", "8", "e", "e", "4", "2",
      "3", "-", "7", "e", "8", "a", "-", "4", "c", "2", "e", "-", "9", "b",
      "1", "a", "-", "2", "f", "6", "e", "5", "d", "7", "c", "8", "b", "9",
      "0">>

\* " /p?q=true "
PaddedPath ==
    <<" ", "/", "p", "?", "q", "=", "t", "r", "u", "e", " ">>

\* "/cart/1234567?sid=abcdef12&sid2=abcdef12"
CartPath ==
    <<"/", "c", "a", "r", "t", "/", "1", "2", "3", "4", "5", "6", "7", "?",
      "s", "i", "d", "=", "a", "b", "c", "d", "e", "f", "1", "2", "&", "s",
      "i", "d", "2", "=", "a", "b", "c", "d", "e", "f", "1", "2">>

\* "/api"
ApiPath ==
    <<"/", "a", "p", "i">>

\* "POST"
PostText ==
    <<"P", "O", "S", "T">>

\* "token"
TokenText ==
    <<"t", "o", "k", "e", "n">>

ArgTexts ==
    <<JwtText, LongNumberText, UuidText, SpacedJwtText, FourPartJwtText, TrueText,
      FalseText, ShortText, VariableText, PaddedIdText, SessionText, LabelledIdText>>

PathTexts ==
    <<OrdersPath, UsersQueryPath, EscapedQueryPath, TwoMarksPath, UuidPath, PaddedPath>>

\* ------------------------------------------------------------------------
\* The documents under jmx/
\* ------------------------------------------------------------------------
\* the most request elements a generated document holds
MaxSamplers == 3

KnownNames == <<"Login", "GetProfile", "Checkout">>

requestName(k) ==
    IF k <= Len(KnownNames) THEN KnownNames[k] ELSE "Request-" \o ToString(k)

StringProp(name, text) == Element("stringProp", <<name>>, <<>>, text, <<>>)

\* <elementProp name="..." elementType="HTTPArgument"> with name and value
Argument(text) ==
    Element("elementProp", <<"token">>, <<>>, <<>>,
            <<StringProp("Argument.name", TokenText), StringProp("Argument.value", text)>>)

\* an argument that carries its value alone
ValueOnlyArgument(text) ==
    Element("elementProp", <<"token">>, <<>>, <<>>, <<StringProp("Argument.value", text)>>)

\* <elementProp name="HTTPsampler.Arguments"><collectionProp>...</collectionProp>
Arguments(args) ==
    Element("elementProp", <<"HTTPsampler.Arguments">>, <<>>, <<>>,
            <<Element("collectionProp", <<"Arguments.arguments">>, <<>>, <<>>, args)>>)

Sampler(testname, kids) == Element("HTTPSamplerProxy", <<>>, testname, <<>>, kids)

\* a request as JMeter writes it: its arguments, then method and path
Request(testname, pathText, argTexts) ==
    Sampler(testname,
            <<Arguments([k \in 1..Len(argTexts) |-> Argument(argTexts[k])]),
              StringProp("HTTPSampler.method", PostText),
              StringProp("HTTPSampler.path", pathText)>>)

HashTree(kids) == Element("hashTree", <<>>, <<>>, <<>>, kids)

Controller == Element("TransactionController", <<>>, <<"Transaction">>, <<>>, <<>>)

TestPlan(items) == Element("jmeterTestPlan", <<>>, <<>>, <<>>, <<HashTree(items)>>)

\* each request element is followed by its own (here empty) hashTree
RECURSIVE withTrees(_)
withTrees(requests) ==
    IF requests = <<>> THEN <<>>
    ELSE <<Head(requests), HashTree(<<>>)>> \o withTrees(Tail(requests))

\* n requests that all send the same argument text
ArgsDocument(n, text) ==
    TestPlan(withTrees([k \in 1..n |-> Request(<<requestName(k)>>, ApiPath, <<text>>)]))

\* one request with a path and no argument
PathDocument(text) ==
    TestPlan(withTrees(<<Request(<<"GetOrder">>, text, <<>>)>>))

\* requests at different depths; named or left to the default name
LayoutDocument(layout, named) ==
    LET R(nm) == Request(IF named THEN <<nm>> ELSE <<>>, ApiPath, <<IdText>>)
    IN  CASE layout = 1 ->
               TestPlan(<<R("A"), HashTree(<<>>), R("B"), HashTree(<<>>)>>)
          [] layout = 2 ->
               TestPlan(<<Controller, HashTree(<<R("A"), HashTree(<<>>)>>),
                          R("B"), HashTree(<<>>)>>)
          [] layout = 3 ->
               TestPlan(<<R("A"), HashTree(<<>>),
                          Controller, HashTree(<<R("B"), HashTree(<<>>)>>)>>)
          [] layout = 4 ->
               TestPlan(<<Controller,
                          HashTree(<<Controller, HashTree(<<R("A"), HashTree(<<>>)>>),
                                     R("B"), HashTree(<<>>)>>),
                          R("C"), HashTree(<<>>)>>)

Layouts == 1..4

\* one request (or none) whose fields are absent, single, repeated or odd
ShapeDocument(shape) ==
    CASE shape = 1 ->   \* no request at all
           TestPlan(<<Controller, HashTree(<<>>)>>)
      [] shape = 2 ->   \* a request with a name and nothing else
           TestPlan(withTrees(<<Sampler(<<"Bare">>, <<>>)>>))
      [] shape = 3 ->   \* a request without name, path or arguments
           TestPlan(withTrees(<<Sampler(<<>>, <<StringProp("HTTPSampler.method", PostText),
                                                StringProp("HTTPSampler.domain", ApiPath)>>)>>))
      [] shape = 4 ->   \* an empty request element
           TestPlan(withTrees(<<Element("HTTPSamplerProxy", <<>>, <<>>, <<>>, <<>>)>>))
      [] shape = 5 ->   \* the path is the only string property
           TestPlan(withTrees(<<Sampler(<<"OnlyPath">>,
                                        <<StringProp("HTTPSampler.path", UsersQueryPath)>>)>>))
      [] shape = 6 ->   \* the value is the argument's only string property
           TestPlan(withTrees(<<Sampler(<<"OnlyValue">>,
                                        <<Arguments(<<ValueOnlyArgument(IdText)>>),
                                          StringProp("HTTPSampler.method", PostText),
                                          StringProp("HTTPSampler.path", ApiPath)>>)>>))
      [] shape = 7 ->   \* two element properties on the request
           TestPlan(withTrees(<<Sampler(<<"TwoProps">>,
                                        <<Arguments(<<Argument(IdText)>>),
                                          Element("elementProp", <<"HTTPsampler.Files">>,
                                                  <<>>, <<>>, <<>>),
                                          StringProp("HTTPSampler.method", PostText),
                                          StringProp("HTTPSampler.path", ApiPath)>>)>>))
      [] shape = 8 ->   \* an empty test name
           TestPlan(withTrees(<<Request(<<"">>, ApiPath, <<IdText>>)>>))
      [] shape = 9 ->   \* a string property that holds a child element <find>
           TestPlan(withTrees(<<Sampler(<<"Odd">>,
                                        <<Element("stringProp", <<"HTTPSampler.path">>, <<>>,
                                                  ApiPath,
                                                  <<Element("find", <<>>, <<>>, IdText,
                                                            <<>>)>>)>>)>>))

Shapes == 1..9

\* requests that share some of their values
MixedDocument(mix) ==
    CASE mix = 1 ->
           TestPlan(withTrees(<<Request(<<"AddToCart">>, CartPath, <<UserIdText>>),
                                Request(<<"Pay">>, ApiPath, <<SessionText>>)>>))
      [] mix = 2 ->
           TestPlan(withTrees(<<Request(<<"Login">>, ApiPath, <<JwtText>>),
                                Request(<<"GetProfile">>, ApiPath, <<JwtText, UuidText>>),
                                Request(<<>>, UuidPath, <<UuidText, TrueText>>)>>))

Mixes == 1..2

\* A file of the jmx directory is named by the document it holds: family fam,
\* request count n and text or variant t.  fam = "missing" names a path under
\* which no file exists.
File(fam, n, t) == [fam |-> fam, n |-> n, t |-> t]

MissingFile == File("missing", 0, 0)

Files ==
    {File("args", n, t) : n \in 1..MaxSamplers, t \in 1..Len(ArgTexts)}
    \cup {File("path", 1, t) : t \in 1..Len(PathTexts)}
    \cup {File("layout", n, t) : n \in 0..1, t \in Layouts}
    \cup {File("shape", 0, t) : t \in Shapes}
    \cup {File("mixed", 0, t) : t \in Mixes}

baseName(f) == f.fam \o "-" \o ToString(f.n) \o "-" \o ToString(f.t) \o ".jmx"

\* fs.existsSync(jmxFilePath)
existsSync(f) == f \in Files

\* fs.readFileSync(jmxFilePath, "utf-8"): the document the file holds
readFileSync(f) ==
    CASE f.fam = "args"   -> ArgsDocument(f.n, ArgTexts[f.t])
      [] f.fam = "path"   -> PathDocument(PathTexts[f.t])
      [] f.fam = "layout" -> LayoutDocument(f.t, f.n = 1)
      [] f.fam = "shape"  -> ShapeDocument(f.t)
      [] f.fam = "mixed"  -> MixedDocument(f.t)

\* ------------------------------------------------------------------------
\* Invocations of analyzeJMXForCorrelation
\* ------------------------------------------------------------------------
\* Two calls may be in flight: each suspends once, at the awaited parse.
Invocations == {1, 2}

VARIABLES
    pc,          \* per invocation: "idle", "parsing" (awaiting the parse), "done", "failed"
    file,        \* the jmxFilePath argument
    samplers,    \* the local list of request descriptors
    valueIndex,  \* the local value index
    report,      \* <<the returned Report>>, or <<>> when none was returned
    error        \* the message of the raised error, "" when none

\* The process that serves requests over stdin/stdout (server-mcp-full.js)
VARIABLES
    lines,       \* how many lines the listener has read
    handler,     \* per line: where its handleMCPRequest call stands
    stdout,      \* the responses written, in the order they were written
    reports,     \* what REPORTS_DIR holds for each run id
    crashed      \* the process has ended on an uncaught exception

engineVars == <<pc, file, samplers, valueIndex, report, error>>

mcpVars == <<lines, handler, stdout, reports, crashed>>

vars == <<engineVars, mcpVars>>

\* variant: one list shared by the invocations
sharedSamplers(i) == samplers[CHOOSE j \in Invocations : j # i]

\* const samplers = [] of the invocation that resumes

newSamplers(i) == <<>>

\* the default argument order = { index: 0 }, evaluated at each outer call
newOrder == [index |-> 0]

\* the most lines the listener reads
MaxLines == 3

\* a line whose handler has not started: no run, no file
Unread == [at |-> "unread", run |-> 0, jmx |-> MissingFile, jtl |-> "none"]

\* a run id under which REPORTS_DIR holds nothing
NoReport == [dir |-> FALSE, html |-> FALSE, jtl |-> "none", zip |-> FALSE]

Init ==
    /\ pc = [i \in Invocations |-> "idle"]
    /\ file = [i \in Invocations |-> MissingFile]
    /\ samplers = [i \in Invocations |-> <<>>]
    /\ valueIndex = [i \in Invocations |-> <<>>]
    /\ report = [i \in Invocations |-> <<>>]
    /\ error = [i \in Invocations |-> ""]
    /\ lines = 0
    /\ handler = [n \in 1..MaxLines |-> Unread]
    /\ stdout = <<>>
    /\ reports = [n \in 1..MaxLines |-> NoReport]
    /\ crashed = FALSE

\* analyzeJMXForCorrelation(jmxFilePath) up to its await: the existence check
\* raises, or the file is read and the parse is awaited.  No operation of the
\* server writes under jmx/, so the text read here is the one the file holds
\* when the parse settles, and the invocation keeps the path alone.
Call(i, f) ==
    /\ pc[i] = "idle"
    /\ file' = [file EXCEPT ![i] = f]
    /\ IF ~existsSync(f)
       THEN /\ pc' = [pc EXCEPT ![i] = "failed"]
            /\ error' = [error EXCEPT ![i] = "JMX file not found"]
       ELSE /\ pc' = [pc EXCEPT ![i] = "parsing"]
            /\ error' = error
    /\ UNCHANGED <<samplers, valueIndex, report>>
    /\ UNCHANGED mcpVars

\* the rest of analyzeJMXForCorrelation, run without suspension once the parse
\* has settled: collect, index, suggest, return
Resume(i) ==
    /\ pc[i] = "parsing"
    /\ \E walk \in {collectHTTPSamplers(parseStringPromise(readFileSync(file[i])),
                       [result |-> newSamplers(i), index |-> newOrder.index,
                        threw |-> FALSE])} :
          IF walk.threw
          THEN /\ pc' = [pc EXCEPT ![i] = "failed"]
               /\ error' = [error EXCEPT ![i] = "TypeError"]
               /\ UNCHANGED <<samplers, valueIndex, report>>
          ELSE \E index \in {buildValueIndex(walk.result)} :
               \E suggestions \in {buildCorrelationSuggestions(index)} :
                  /\ pc' = [pc EXCEPT ![i] = "done"]
                  /\ samplers' = [samplers EXCEPT ![i] = walk.result]
                  /\ valueIndex' = [valueIndex EXCEPT ![i] = index]
                  /\ report' = [report EXCEPT ![i] =
                                   <<[jmxFile |-> baseName(file[i]),
                                      samplersScanned |-> Len(walk.result),
                                      correlationCandidates |-> Len(suggestions),
                                      suggestions |-> suggestions]>>]
                  /\ error' = error
    /\ UNCHANGED file
    /\ UNCHANGED mcpVars

\* the caller has taken the outcome; the invocation's locals are gone
Finish(i) ==
    /\ pc[i] \in {"done", "failed"}
    /\ pc' = [pc EXCEPT ![i] = "idle"]
    /\ file' = [file EXCEPT ![i] = MissingFile]
    /\ samplers' = [samplers EXCEPT ![i] = <<>>]
    /\ valueIndex' = [valueIndex EXCEPT ![i] = <<>>]
    /\ report' = [report EXCEPT ![i] = <<>>]
    /\ error' = [error EXCEPT ![i] = ""]
    /\ UNCHANGED mcpVars

Next ==
    \/ \E i \in Invocations : \E f \in Files \cup {MissingFile} : Call(i, f)
    \/ \E i \in Invocations : Resume(i)
    \/ \E i \in Invocations : Finish(i)

Spec == Init /\ [][Next]_vars

\* ------------------------------------------------------------------------
\* The stdin/stdout listener and handleMCPRequest
\* ------------------------------------------------------------------------
\* A field of a request is absent <<>> or present <<v>>.  The request read on
\* line n carries the id n.  A run started on line n gets the fresh run id n.
requestId(n) == n

\* the files under jmx/ the requests name, and a name under which none exists
RequestFiles == {File("args", 2, 1), File("shape", 0, 9), MissingFile}

Answered == [at |-> "answered", run |-> 0, jmx |-> MissingFile, jtl |-> "none"]

\* the listener read a line: rl.on("line", ...) is entered for line lines + 1
readLine ==
    /\ ~crashed
    /\ lines < MaxLines
    /\ lines' = lines + 1

\* handleMCPRequest returns {id, <key>: ...} and the listener writes it
answer(n, key, message) ==
    /\ stdout' = Append(stdout, [line |-> n, id |-> <<requestId(n)>>,
                                 keys |-> {key}, error |-> message])
    /\ handler' = [handler EXCEPT ![n] = Answered]

\* the call is suspended at an await
suspend(n, at, run, jmx) ==
    /\ handler' = [handler EXCEPT ![n] = [at |-> at, run |-> run, jmx |-> jmx,
                                          jtl |-> "none"]]
    /\ stdout' = stdout

\* JSON.parse(line) raises: the listener answers without an id
invalidLine ==
    /\ readLine
    /\ stdout' = Append(stdout, [line |-> lines + 1, id |-> <<>>,
                                 keys |-> {"error"}, error |-> "Invalid JSON"])
    /\ handler' = [handler EXCEPT ![lines + 1].at = "invalid"]
    /\ UNCHANGED <<reports, crashed, engineVars>>

listTests ==
    /\ readLine
    /\ answer(lines + 1, "result", "")
    /\ UNCHANGED <<reports, crashed, engineVars>>

\* method "runJMeter": runJMeterInternal up to the exec.  An absent jmxFile
\* makes path.isAbsolute raise; a jmeterArgs that cannot be spread raises
\* after the run directory was made.
runJMeter(jmxFile, jmeterArgs) ==
    /\ readLine
    /\ IF jmxFile = <<>>
       THEN answer(lines + 1, "error", "TypeError") /\ reports' = reports
       ELSE IF ~existsSync(jmxFile[1])
       THEN answer(lines + 1, "error", "JMX file not found") /\ reports' = reports
       ELSE /\ reports' = [reports EXCEPT ![lines + 1].dir = TRUE]
            /\ IF jmeterArgs = "number"
               THEN answer(lines + 1, "error", "TypeError")
               ELSE suspend(lines + 1, "exec", lines + 1, jmxFile[1])
    /\ UNCHANGED <<crashed, engineVars>>

\* the exec callback: JMeter could not run ("none"), or it left a report and a
\* result file without ("empty") or with ("valid") samples; either way the
\* promise resolves and the call returns {id, result}
runJMeterExit(n, outcome) ==
    /\ ~crashed
    /\ handler[n].at = "exec"
    /\ reports' = IF outcome = "none" THEN reports
                  ELSE [reports EXCEPT ![n] = [dir |-> TRUE, html |-> TRUE,
                                               jtl |-> outcome, zip |-> @.zip]]
    /\ answer(n, "result", "")
    /\ UNCHANGED <<lines, crashed, engineVars>>

\* method "getReportZip" up to await zipDirectory(...)
getReportZip(runId) ==
    /\ readLine
    /\ IF runId = <<>>
       THEN answer(lines + 1, "error", "TypeError")
       ELSE IF ~reports[runId[1]].html
       THEN answer(lines + 1, "error", "Report not found")
       ELSE suspend(lines + 1, "zip", runId[1], MissingFile)
    /\ UNCHANGED <<reports, crashed, engineVars>>

\* zipDirectory settles and the archive is read back.  When the report was
\* removed meanwhile the archive may be left empty or missing: sent tells
\* which.
zipDirectorySettled(n, sent) ==
    /\ ~crashed
    /\ handler[n].at = "zip"
    /\ IF reports[handler[n].run].html
       THEN /\ sent
            /\ reports' = [reports EXCEPT ![handler[n].run].zip = TRUE]
            /\ answer(n, "result", "")
       ELSE /\ reports' = reports
            /\ IF sent THEN answer(n, "result", "") ELSE answer(n, "error", "ENOENT")
    /\ UNCHANGED <<lines, crashed, engineVars>>

\* method "analyzeRun" up to await analyzeJTL(...): the read stream is made,
\* the file is not yet opened
analyzeRun(runId) ==
    /\ readLine
    /\ IF runId = <<>>
       THEN answer(lines + 1, "error", "TypeError")
       ELSE IF reports[runId[1]].jtl = "none"
       THEN answer(lines + 1, "error", "result.jtl not found")
       ELSE suspend(lines + 1, "open", runId[1], MissingFile)
    /\ UNCHANGED <<reports, crashed, engineVars>>

\* the read stream opens result.jtl.  When the file is gone the stream emits
\* "error"; the only "error" listener is on the piped csv stream, so the
\* event is unhandled and ends the process.
analyzeJTLOpened(n) ==
    /\ ~crashed
    /\ handler[n].at = "open"
    /\ IF reports[handler[n].run].jtl = "none"
       THEN /\ crashed' = TRUE
            /\ handler' = handler
       ELSE /\ crashed' = crashed
            /\ handler' = [handler EXCEPT ![n].at = "read",
                                          ![n].jtl = reports[handler[n].run].jtl]
    /\ UNCHANGED <<lines, stdout, reports, engineVars>>

\* the csv stream ends: a summary, or "No valid samples found in JTL"
analyzeJTLEnd(n) ==
    /\ ~crashed
    /\ handler[n].at = "read"
    /\ IF handler[n].jtl = "valid"
       THEN answer(n, "result", "")
       ELSE answer(n, "error", "No valid samples found in JTL")
    /\ UNCHANGED <<lines, reports, crashed, engineVars>>

\* method "detectCorrelation" up to await analyzeJMXForCorrelation(...)
detectCorrelation(jmxFile) ==
    /\ readLine
    /\ IF jmxFile = <<>>
       THEN answer(lines + 1, "error", "jmxFile is required")
       ELSE suspend(lines + 1, "engine", 0, jmxFile[1])
    /\ UNCHANGED <<reports, crashed, engineVars>>

\* analyzeJMXForCorrelation settles: rejected for a missing file or a raised
\* TypeError, else resolved with the Report
detectCorrelationSettled(n) ==
    /\ ~crashed
    /\ handler[n].at = "engine"
    /\ IF ~existsSync(handler[n].jmx)
       THEN answer(n, "error", "JMX file not found")
       ELSE IF collectHTTPSamplers(parseStringPromise(readFileSync(handler[n].jmx)),
                  [result |-> <<>>, index |-> newOrder.index, threw |-> FALSE]).threw
       THEN answer(n, "error", "TypeError")
       ELSE answer(n, "result", "")
    /\ UNCHANGED <<lines, reports, crashed, engineVars>>

\* method "cleanup": REPORTS_DIR is removed and made anew
cleanup ==
    /\ readLine
    /\ reports' = [n \in 1..MaxLines |-> NoReport]
    /\ answer(lines + 1, "result", "")
    /\ UNCHANGED <<crashed, engineVars>>

\* any other method name
unknownMethod ==
    /\ readLine
    /\ answer(lines + 1, "error", "Unknown method")
    /\ UNCHANGED <<reports, crashed, engineVars>>

MCPNext ==
    \/ invalidLine
    \/ listTests
    \/ \E f \in {<<>>} \cup {<<g>> : g \in RequestFiles} :
       \E a \in {"absent", "list", "number"} : runJMeter(f, a)
    \/ \E n \in 1..MaxLines : \E o \in {"none", "empty", "valid"} : runJMeterExit(n, o)
    \/ \E r \in {<<>>} \cup {<<n>> : n \in 1..MaxLines} : getReportZip(r)
    \/ \E n \in 1..MaxLines : \E sent \in BOOLEAN : zipDirectorySettled(n, sent)
    \/ \E r \in {<<>>} \cup {<<n>> : n \in 1..MaxLines} : analyzeRun(r)
    \/ \E n \in 1..MaxLines : analyzeJTLOpened(n)
    \/ \E n \in 1..MaxLines : analyzeJTLEnd(n)
    \/ \E f \in {<<>>} \cup {<<g>> : g \in RequestFiles} : detectCorrelation(f)
    \/ \E n \in 1..MaxLines : detectCorrelationSettled(n)
    \/ cleanup
    \/ unknownMethod

MCPSpec == Init /\ [][MCPNext]_vars

\* ------------------------------------------------------------------------
\* Properties
\* ------------------------------------------------------------------------
Done(i) == pc[i] = "done"

\* the document invocation i was called on
Document(i) == readFileSync(file[i])

\* the suggestions of the Report invocation i returned
Suggestions(i) == report[i][1].suggestions

Generic == "GENERIC_DYNAMIC_VALUE"

\* C1 (as stated): the document with exactly the two requests "Login" and
\* "GetProfile", each sending the argument value "eyJabc.def.ghi", yields exactly
\* one suggestion: that value, JWT_TOKEN, HIGH, used in Login then GetProfile,
\* Regex Extractor.
C1_OneSuggestion ==
    \A i \in Invocations :
        Done(i) /\ Document(i) = ArgsDocument(2, JwtText) =>
            /\ Len(Suggestions(i)) = 1
            /\ Suggestions(i)[1].detectedValue = JwtText
            /\ Suggestions(i)[1].valueType = "JWT_TOKEN"
            /\ Suggestions(i)[1].confidence = "HIGH"
            /\ Suggestions(i)[1].usedInSamplers = <<"Login", "GetProfile">>
            /\ Suggestions(i)[1].recommendation.extractor = "Regex Extractor"

\* C1 (amended): that document yields exactly two suggestions: first the token
\* (JWT_TOKEN, HIGH, used in Login then GetProfile, Regex Extractor), then the
\* alphanumeric run "eyJabc" inside it (GENERIC_DYNAMIC_VALUE, LOW, used in the
\* same two requests).
C1_TokenAndItsPrefix ==
    \A i \in Invocations :
        Done(i) /\ Document(i) = ArgsDocument(2, JwtText) =>
            /\ report[i][1].correlationCandidates = 2
            /\ Len(Suggestions(i)) = 2
            /\ Suggestions(i)[1].detectedValue = JwtText
            /\ Suggestions(i)[1].valueType = "JWT_TOKEN"
            /\ Suggestions(i)[1].confidence = "HIGH"
            /\ Suggestions(i)[1].usedInSamplers = <<"Login", "GetProfile">>
            /\ Suggestions(i)[1].recommendation.extractor = "Regex Extractor"
            /\ Suggestions(i)[2].detectedValue = JwtPrefixText
            /\ Suggestions(i)[2].valueType = Generic
            /\ Suggestions(i)[2].confidence = "LOW"
            /\ Suggestions(i)[2].usedInSamplers = <<"Login", "GetProfile">>

C1_Witness ==
    \E i \in Invocations :
        /\ Done(i)
        /\ Document(i) = ArgsDocument(2, JwtText)
        /\ report[i][1].samplersScanned = 2
        /\ Len(Suggestions(i)) = 2

OrdersWord == SubSeq(OrdersPath, 2, 7)
StatusWord == SubSeq(OrdersPath, 13, 18)

SixteenDigits(v) == Len(v) = 16 /\ \A k \in 1..Len(v) : v[k] \in Digits

\* C3 (as stated): a 16-digit value used in exactly one request is reported
\* NUMERIC_ID with confidence MEDIUM; used in 3 requests its confidence is HIGH.
C3_NumericMedium ==
    \A i \in Invocations : Done(i) =>
        \A k \in 1..Len(Suggestions(i)) :
            SixteenDigits(Suggestions(i)[k].detectedValue) =>
                /\ Suggestions(i)[k].valueType = "NUMERIC_ID"
                /\ Len(Suggestions(i)[k].usedInSamplers) = 1
                      => Suggestions(i)[k].confidence = "MEDIUM"
                /\ Len(Suggestions(i)[k].usedInSamplers) = 3
                      => Suggestions(i)[k].confidence = "HIGH"

\* C3 (amended): a 16-digit value is reported GENERIC_DYNAMIC_VALUE (a numeric
\* id has at most 14 digits); used in exactly one request its confidence is
\* LOW, used in 3 requests its confidence is HIGH.
C3_GenericLow ==
    \A i \in Invocations : Done(i) =>
        \A k \in 1..Len(Suggestions(i)) :
            SixteenDigits(Suggestions(i)[k].detectedValue) =>
                /\ Suggestions(i)[k].valueType = Generic
                /\ Len(Suggestions(i)[k].usedInSamplers) = 1
                      => Suggestions(i)[k].confidence = "LOW"
                /\ Len(Suggestions(i)[k].usedInSamplers) = 3
                      => Suggestions(i)[k].confidence = "HIGH"

C3_Witness ==
    \E i \in Invocations : \E j \in Invocations :
        /\ Done(i) /\ Done(j)
        /\ \E k \in 1..Len(Suggestions(i)) :
              /\ SixteenDigits(Suggestions(i)[k].detectedValue)
              /\ Len(Suggestions(i)[k].usedInSamplers) = 1
        /\ \E k \in 1..Len(Suggestions(j)) :
              /\ SixteenDigits(Suggestions(j)[k].detectedValue)
              /\ Len(Suggestions(j)[k].usedInSamplers) = 3

\* what the data model calls ignorable: empty, shorter than 4 characters, the
\* literal "true" or "false", or written in parameter-substitution syntax
Ignorable(v) ==
    \/ v = <<>>
    \/ Len(v) < 4
    \/ v = <<"t", "r", "u", "e">>
    \/ v = <<"f", "a", "l", "s", "e">>
    \/ (Len(v) >= 2 /\ v[1] = "$" /\ v[2] = "{")

\* C4: no key of the value index and no detectedValue of a Report is empty,
\* shorter than 4 characters, "true" or "false", or begins with "${", whatever
\* source the value came from.
C4_NoIgnorableValue ==
    \A i \in Invocations : Done(i) =>
        /\ \A k \in 1..Len(valueIndex[i]) : ~Ignorable(valueIndex[i][k].value)
        /\ \A k \in 1..Len(Suggestions(i)) : ~Ignorable(Suggestions(i)[k].detectedValue)

\* a Report was returned for a document that holds ignorable values in a query
\* parameter (the escaped "${id}") and one for a document whose whole argument
\* value is "true"
C4_Witness ==
    \E i \in Invocations : \E j \in Invocations :
        /\ Done(i) /\ Document(i) = PathDocument(EscapedQueryPath)
        /\ Len(Suggestions(i)) > 0
        /\ Done(j) /\ Document(j) = ArgsDocument(1, TrueText)
        /\ report[j][1].samplersScanned = 1

\* the non-ignorable members of the union of the requests' literal sets
Literals(i) ==
    {v \in UNION {RangeOf(samplers[i][k].requestValues) : k \in 1..Len(samplers[i])} :
        ~Ignorable(v)}

\* C5: correlationCandidates = suggestions.length = the number of distinct
\* non-ignorable literal values of the document's requests; each of them has a
\* suggestion and no two suggestions share a detectedValue.
C5_OneSuggestionPerLiteral ==
    \A i \in Invocations : Done(i) =>
        /\ report[i][1].correlationCandidates = Len(Suggestions(i))
        /\ Len(Suggestions(i)) = Cardinality(Literals(i))
        /\ \A v \in Literals(i) :
              \E k \in 1..Len(Suggestions(i)) : Suggestions(i)[k].detectedValue = v
        /\ \A k \in 1..Len(Suggestions(i)) : \A l \in 1..Len(Suggestions(i)) :
              Suggestions(i)[k].detectedValue = Suggestions(i)[l].detectedValue => k = l

\* a Report for a document in which one value is a literal of two requests and
\* occurs twice within one of them
C5_Witness ==
    \E i \in Invocations :
        /\ Done(i)
        /\ Document(i) = MixedDocument(1)
        /\ Len(samplers[i]) = 2
        /\ SessionText \in RangeOf(samplers[i][1].requestValues)
        /\ SessionText \in RangeOf(samplers[i][2].requestValues)
        /\ Cardinality(Literals(i)) > 1

\* the classification the specification describes: each predicate is the shape
\* pattern anchored to the whole value
Base64Url == AlphaNumClass \cup {"_", "-"}

ShapeJwt(v) ==
    /\ Len(v) >= 3 /\ SubSeq(v, 1, 3) = <<"e", "y", "J">>
    /\ Cardinality({k \in 1..Len(v) : v[k] = "."}) = 2
    /\ \A k \in 1..Len(v) : v[k] = "." \/ v[k] \in Base64Url

ShapeUuid(v) ==
    /\ Len(v) = 36
    /\ \A k \in 1..Len(v) :
          IF k \in {9, 14, 19, 24} THEN v[k] = "-" ELSE v[k] \in HexClass

ShapeNumeric(v) == Len(v) \in 6..14 /\ \A k \in 1..Len(v) : v[k] \in Digits

ShapeAlphaNumeric(v) == Len(v) \in 6..20 /\ \A k \in 1..Len(v) : v[k] \in AlphaNumClass

ShapeType(v) ==
    IF ShapeJwt(v) THEN "JWT_TOKEN"
    ELSE IF ShapeUuid(v) THEN "UUID"
    ELSE IF ShapeNumeric(v) THEN "NUMERIC_ID"
    ELSE IF ShapeAlphaNumeric(v) THEN Generic
    ELSE "UNKNOWN"

\* C6 (as stated): every reported valueType is the tag of the first shape that
\* matches the whole value, in the priority JWT, UUID, NUMERIC_ID,
\* GENERIC_DYNAMIC_VALUE, else UNKNOWN; JWT_TOKEN exactly for a value that
\* begins with "eyJ" and is three dot-separated segments of base64url-safe
\* characters, NUMERIC_ID exactly for 6 to 14 digits.
C6_TypeIsAnchoredShape ==
    \A i \in Invocations : Done(i) =>
        \A k \in 1..Len(Suggestions(i)) :
            Suggestions(i)[k].valueType = ShapeType(Suggestions(i)[k].detectedValue)

\* C7: confidence is HIGH iff the value has at least 3 occurrences or its
\* valueType is JWT_TOKEN or UUID; otherwise MEDIUM iff its valueType is
\* NUMERIC_ID; otherwise LOW.  The canonical UUID is reported UUID with HIGH,
\* and no GENERIC_DYNAMIC_VALUE or UNKNOWN suggestion is MEDIUM.
C7_ConfidenceRule ==
    \A i \in Invocations : Done(i) =>
        \A k \in 1..Len(Suggestions(i)) :
            /\ Suggestions(i)[k].confidence =
                  IF \/ Len(Suggestions(i)[k].usedInSamplers) >= 3
                     \/ Suggestions(i)[k].valueType \in {"JWT_TOKEN", "UUID"}
                  THEN "HIGH"
                  ELSE IF Suggestions(i)[k].valueType = "NUMERIC_ID" THEN "MEDIUM"
                  ELSE "LOW"
            /\ Suggestions(i)[k].detectedValue = UuidText =>
                  /\ Suggestions(i)[k].valueType = "UUID"
                  /\ Suggestions(i)[k].confidence = "HIGH"
            /\ Suggestions(i)[k].valueType \in {Generic, "UNKNOWN"} =>
                  Suggestions(i)[k].confidence # "MEDIUM"

\* Reports that show every branch of the rule: a UUID used once (HIGH), a
\* numeric id used once (MEDIUM) and a numeric id used three times (HIGH)
C7_Witness ==
    \E i \in Invocations : \E j \in Invocations :
        /\ Done(i) /\ Done(j)
        /\ \E k \in 1..Len(Suggestions(i)) :
              /\ Suggestions(i)[k].detectedValue = UuidText
              /\ Len(Suggestions(i)[k].usedInSamplers) = 1
              /\ Suggestions(i)[k].confidence = "HIGH"
        /\ \E k \in 1..Len(Suggestions(j)) :
              /\ Suggestions(j)[k].valueType = "NUMERIC_ID"
              /\ Len(Suggestions(j)[k].usedInSamplers) >= 3
              /\ Suggestions(j)[k].confidence = "HIGH"

\* C8 (as stated): an invocation fails only when its file does not exist, and
\* then it returns no Report; for every document that exists it returns one.
C8_FailsOnlyWhenMissing ==
    \A i \in Invocations :
        /\ pc[i] = "failed" => ~existsSync(file[i]) /\ report[i] = <<>>
        /\ Done(i) => existsSync(file[i]) /\ report[i] # <<>>

\* the Report the engine computes for a file when it runs alone
AloneReport(f) ==
    [jmxFile |-> baseName(f),
     samplersScanned |->
         Len(collectHTTPSamplers(parseStringPromise(readFileSync(f)),
                [result |-> <<>>, index |-> 0, threw |-> FALSE]).result),
     correlationCandidates |->
         Len(buildValueIndex(
                collectHTTPSamplers(parseStringPromise(readFileSync(f)),
                   [result |-> <<>>, index |-> 0, threw |-> FALSE]).result)),
     suggestions |->
         buildCorrelationSuggestions(buildValueIndex(
                collectHTTPSamplers(parseStringPromise(readFileSync(f)),
                   [result |-> <<>>, index |-> 0, threw |-> FALSE]).result))]

RECURSIVE documentOrder(_)
RECURSIVE documentOrderOfAll(_)
documentOrder(el) ==
    (IF el.tag = "HTTPSamplerProxy"
     THEN <<IF el.testname = <<>> THEN "" ELSE el.testname[1]>>
     ELSE <<>>)
    \o documentOrderOfAll(el.kids)

documentOrderOfAll(kids) ==
    IF kids = <<>> THEN <<>>
    ELSE documentOrder(Head(kids)) \o documentOrderOfAll(Tail(kids))

\* every request element carries a test name of its own
DistinctlyNamed(names) ==
    /\ \A a \in 1..Len(names) : names[a] # ""
    /\ \A a \in 1..Len(names) : \A b \in 1..Len(names) : names[a] = names[b] => a = b

\* C10 (as stated): if request element A appears before request element B in
\* the document, the descriptor of A has the smaller order, also when A sits in
\* a nested hashTree that precedes B.
C10_OrderIsDocumentOrder ==
    \A i \in Invocations :
        Done(i) /\ DistinctlyNamed(documentOrder(Document(i))) =>
            \A a \in 1..Len(documentOrder(Document(i))) :
            \A b \in 1..Len(documentOrder(Document(i))) :
                a < b =>
                    \A k \in 1..Len(samplers[i]) : \A l \in 1..Len(samplers[i]) :
                        /\ samplers[i][k].name = documentOrder(Document(i))[a]
                        /\ samplers[i][l].name = documentOrder(Document(i))[b]
                        => samplers[i][k].order < samplers[i][l].order

\* C11 (as stated): a document with n request elements gives exactly n
\* descriptors, one per element, whose order values are 1, 2, ..., n in list
\* order; samplersScanned = n; and a descriptor of an element without test name
\* is named "Sampler-<its order>".
C11_OneDescriptorPerElement ==
    \A i \in Invocations :
        Done(i) =>
            /\ Len(samplers[i]) = Len(documentOrder(Document(i)))
            /\ report[i][1].samplersScanned = Len(documentOrder(Document(i)))
            /\ \A k \in 1..Len(samplers[i]) :
                  /\ samplers[i][k].order = k
                  /\ samplers[i][k].name \notin RangeOf(documentOrder(Document(i)))
                        => samplers[i][k].name = "Sampler-" \o ToString(k)

\* the request elements of a document, in document order
RECURSIVE requestElements(_)
RECURSIVE requestElementsOfAll(_)
requestElements(el) ==
    (IF el.tag = "HTTPSamplerProxy" THEN <<el>> ELSE <<>>)
    \o requestElementsOfAll(el.kids)

requestElementsOfAll(kids) ==
    IF kids = <<>> THEN <<>>
    ELSE requestElements(Head(kids)) \o requestElementsOfAll(Tail(kids))

\* the children carrying a tag, of every element of a list
RECURSIVE kidsWithTag(_, _)
kidsWithTag(els, tag) ==
    IF els = <<>> THEN <<>>
    ELSE withTag(Head(els).kids, tag) \o kidsWithTag(Tail(els), tag)

\* the character data of the first string property of el named propName,
\* however many string properties el has; <<>> when there is none
propertyText(el, propName) ==
    LET hit == {k \in 1..Len(el.kids) :
                    el.kids[k].tag = "stringProp" /\ el.kids[k].name = <<propName>>}
    IN  IF hit = {} THEN <<>> ELSE trim(el.kids[MinOf(hit)].text)

\* the argument elements of a request element: the element properties of the
\* collections of its element properties, however many there are of each
argumentElements(el) ==
    kidsWithTag(kidsWithTag(withTag(el.kids, "elementProp"), "collectionProp"),
                "elementProp")

\* the literal set of a request element when every field is read as a list
normalizedLiterals(el) ==
    (IF propertyText(el, "HTTPSampler.path") = <<>> THEN {}
     ELSE RangeOf(pathValues(propertyText(el, "HTTPSampler.path"))))
    \cup UNION {RangeOf(argumentValues(propertyText(a, "Argument.value"))) :
                    a \in RangeOf(argumentElements(el))}

\* C12 (as stated): the literal set of a request does not depend on whether a
\* field (the request's string properties, its element properties, the argument
\* collection, an argument's string properties) occurs once or several times:
\* it is the set read with every field taken as a list, so no path or argument
\* value is dropped.
C12_LiteralsWhateverTheFieldCount ==
    \A i \in Invocations :
        Done(i) /\ DistinctlyNamed(documentOrder(Document(i))) =>
            \A e \in RangeOf(requestElements(Document(i))) :
            \A k \in 1..Len(samplers[i]) :
                samplers[i][k].name = e.testname[1] =>
                    RangeOf(samplers[i][k].requestValues) = normalizedLiterals(e)

\* the positions of the descriptors whose literal set contains value v
requestsHolding(i, v) ==
    {s \in 1..Len(samplers[i]) : v \in RangeOf(samplers[i][s].requestValues)}

\* how many times v is met while the path text is read
usesInPath(pathText, v) ==
    Cardinality({p \in 1..Len(pathValues(pathText)) : pathValues(pathText)[p] = v})

\* C13: every descriptor's literal list has no repeated value; the occurrence
\* list of an indexed value holds exactly one Occurrence for each request whose
\* literal set contains the value, in strictly increasing request order; so
\* usedInSamplers is never longer than samplersScanned, and a value that is
\* neither a JWT nor a UUID is HIGH only when at least 3 distinct requests
\* hold it.
C13_OneOccurrencePerRequest ==
    \A i \in Invocations : Done(i) =>
        /\ \A s \in 1..Len(samplers[i]) :
           \A a \in 1..Len(samplers[i][s].requestValues) :
           \A b \in 1..Len(samplers[i][s].requestValues) :
               samplers[i][s].requestValues[a] = samplers[i][s].requestValues[b] => a = b
        /\ \A k \in 1..Len(valueIndex[i]) :
              /\ \A a \in 1..Len(valueIndex[i][k].occurrences) :
                 \A b \in 1..Len(valueIndex[i][k].occurrences) :
                     a < b => valueIndex[i][k].occurrences[a].order
                                 < valueIndex[i][k].occurrences[b].order
              /\ {valueIndex[i][k].occurrences[a].order :
                      a \in 1..Len(valueIndex[i][k].occurrences)}
                    = {samplers[i][s].order : s \in requestsHolding(i, valueIndex[i][k].value)}
              /\ Len(valueIndex[i][k].occurrences) <= report[i][1].samplersScanned
              /\ Suggestions(i)[k].detectedValue = valueIndex[i][k].value
              /\ Len(Suggestions(i)[k].usedInSamplers)
                    = Cardinality(requestsHolding(i, valueIndex[i][k].value))
              /\ Suggestions(i)[k].confidence = "HIGH"
                 /\ Suggestions(i)[k].valueType \notin {"JWT_TOKEN", "UUID"}
                    => Cardinality(requestsHolding(i, valueIndex[i][k].value))
                          >= HighOccurrences

\* "abcdef12" is met four times while the first request's path is read and
\* once more in the second request: it has two occurrences, in request order,
\* and its confidence is LOW
C13_Witness ==
    \E i \in Invocations :
        /\ Done(i)
        /\ file[i] = File("mixed", 0, 1)
        /\ usesInPath(CartPath, SessionText) >= HighOccurrences
        /\ \E k \in 1..Len(valueIndex[i]) :
              /\ valueIndex[i][k].value = SessionText
              /\ valueIndex[i][k].occurrences =
                    <<[samplerName |-> "AddToCart", order |-> 1],
                      [samplerName |-> "Pay", order |-> 2]>>
              /\ Suggestions(i)[k].usedInSamplers = <<"AddToCart", "Pay">>
              /\ Suggestions(i)[k].confidence = "LOW"

\* the text that follows the first occurrence of ch, <<>> when there is none
afterFirst(text, ch) ==
    LET at == {p \in 1..Len(text) : text[p] = ch}
    IN  IF at = {} THEN <<>> ELSE SubSeq(text, MinOf(at) + 1, Len(text))

\* C14 (as stated): the query of a path is everything after its first "?",
\* also when a second "?" follows, and every parameter value of that remainder
\* that is not ignorable is in the literal set of the request.
C14_QueryIsAllAfterFirstMark ==
    \A i \in Invocations :
        Done(i) /\ file[i].fam = "path" =>
            /\ Len(samplers[i]) = 1
            /\ RangeOf(queryValues(afterFirst(trim(PathTexts[file[i].t]), "?")))
                  \subseteq RangeOf(samplers[i][1].requestValues)

\* C15 (as stated): every request object handed to handleMCPRequest is
\* answered: each response written for it carries the id of its own request
\* and exactly one of result and error, and no call is left without a response
\* because the process has ended.
C15_EveryRequestIsAnswered ==
    /\ \A k \in 1..Len(stdout) :
          handler[stdout[k].line].at = "answered" =>
              /\ stdout[k].id = <<requestId(stdout[k].line)>>
              /\ Cardinality(stdout[k].keys) = 1
              /\ stdout[k].keys \subseteq {"result", "error"}
    /\ \A n \in 1..MaxLines :
          crashed => handler[n].at \in {"unread", "answered", "invalid"}

====
